---- MODULE Spec2Model ----
(***************************************************************************)
(* A model of the request pipeline of the subjects/auth backend: the Flask *)
(* routes of app/routes, the require_auth decorator, the pydantic schemas, *)
(* the BackendlessClient gateway and the global error handlers.            *)
(*                                                                         *)
(* One inbound request is processed at a time (the handlers share no       *)
(* state).  Strings the code manipulates (strip, lower, substring search,  *)
(* interpolation) are sequences of one-character strings.                  *)
(***************************************************************************)
EXTENDS Integers, Sequences, FiniteSets, TLC

VARIABLES
    pc,         \* position of the request in its handler
    req,        \* the inbound request
    reply,      \* the remote's answer to the last outbound HTTP call
    g_token,    \* flask.g.user_token, set by require_auth
    validated,  \* the validated request model (pydantic instance)
    calls,      \* gateway calls made for this request, in order
    total,      \* list_subjects: the value returned by count
    result,     \* the value returned by the last gateway call
    steps,      \* the pipeline steps this request has run, in order
    resp,       \* the response sent to the caller
    config,     \* BACKENDLESS_APP_ID / BACKENDLESS_REST_API_KEY of the Config object
    client,     \* the BackendlessClient being constructed: none, ready or failed
    store,      \* the records the remote holds, by objectId
    before,     \* the remote's records before the last gateway call
    prev        \* the request served before this one, with its response

vars ==
    <<pc, req, reply, g_token, validated, calls, total, result, steps, resp,
      config, client, store, before, prev>>

----------------------------------------------------------------------------
(* Bounds of the model. *)

\* longest name / code / login / password string a request carries
MaxLen == 2

----------------------------------------------------------------------------
(* Strings. *)

Chars == {" ", "a"}

RECURSIVE StringsUpTo(_)
StringsUpTo(n) ==
    IF n = 0 THEN {<<>>}
    ELSE LET shorter == StringsUpTo(n - 1)
         IN  shorter \cup {Append(s, c) : s \in {x \in shorter : Len(x) = n - 1}, c \in Chars}

Strings == StringsUpTo(MaxLen)

UpperCase == <<"A", "B", "C", "D", "E", "F", "G", "H", "I", "J", "K", "L", "M", "N", "O", "P", "Q", "R", "S", "T", "U", "V", "W", "X", "Y", "Z">>
LowerCase == <<"a", "b", "c", "d", "e", "f", "g", "h", "i", "j", "k", "l", "m", "n", "o", "p", "q", "r", "s", "t", "u", "v", "w", "x", "y", "z">>

\* str.lower() on one character
LowerChar(c) ==
    IF \E i \in 1..Len(UpperCase) : UpperCase[i] = c
    THEN LowerCase[CHOOSE i \in 1..Len(UpperCase) : UpperCase[i] = c]
    ELSE c

\* str.lower()
Lower(s) == [i \in 1..Len(s) |-> LowerChar(s[i])]

\* needle in hay
Contains(hay, needle) ==
    \E i \in 1..(Len(hay) - Len(needle) + 1) :
        SubSeq(hay, i, i + Len(needle) - 1) = needle

IsSpace(c) == c = " "

RECURSIVE LStrip(_)
LStrip(s) == IF s # <<>> /\ IsSpace(Head(s)) THEN LStrip(Tail(s)) ELSE s

RECURSIVE RStrip(_)
RStrip(s) ==
    IF s # <<>> /\ IsSpace(s[Len(s)]) THEN RStrip(SubSeq(s, 1, Len(s) - 1)) ELSE s

\* str.strip()
Strip(s) == RStrip(LStrip(s))

----------------------------------------------------------------------------
(* JSON values: every value is a record of the same shape.                 *)
(* t = "absent" stands for a key that is not in the object (or None where  *)
(* the code holds an Optional that was never set).                         *)

JAbsent == [t |-> "absent", s |-> <<>>, n |-> 0]
JNull == [t |-> "null", s |-> <<>>, n |-> 0]
\* a value of a type the field cannot be coerced from (a list, an object)
JOther == [t |-> "other", s |-> <<>>, n |-> 0]
JStr(s) == [t |-> "str", s |-> s, n |-> 0]
JInt(n) == [t |-> "int", s |-> <<>>, n |-> n]

IsStr(v) == v.t = "str"
IsInt(v) == v.t = "int"
\* Python truthiness of an Optional[str]
Truthy(v) == (v.t = "str" /\ v.s # <<>>) \/ (v.t = "int" /\ v.n # 0) \/ v.t = "other"

KClass == <<"c", "l", "a", "s", "s">>
KExam == <<"e", "x", "a", "m">>
KTask == <<"t", "a", "s", "k">>
KProject == <<"p", "r", "o", "j", "e", "c", "t">>
KOther == <<"o", "t", "h", "e", "r">>
KQuiz == <<"q", "u", "i", "z">>

\* Literal["class", "exam", "task", "project", "other"]
KindLiterals == {KClass, KExam, KTask, KProject, KOther}

\* mutant: the default kind is "other"
DefaultKindOther == KOther
\* kind: Field(default="class")
DefaultKind == KClass
DefaultWeeklyLoadHours == 4
DefaultPageSize == 50
DefaultOffset == 0
MaxPageSize == 100
MinPageSize == 1

----------------------------------------------------------------------------
(* Schemas (app/models/schemas.py).  A validation yields                   *)
(* [ok, field, data]: field is the first offending field (loc[0] of the    *)
(* first pydantic error), data the validated model's fields.               *)

NoData ==
    [name |-> JAbsent, code |-> JAbsent, kind |-> JAbsent, weeklyLoadHours |-> JAbsent,
     login |-> JAbsent, password |-> JAbsent, objectId |-> JAbsent, extra |-> JAbsent]

Valid(d) == [ok |-> TRUE, field |-> "", data |-> d]
Invalid(f) == [ok |-> FALSE, field |-> f, data |-> NoData]

\* validate_not_empty of SubjectCreate, after the str / min_length=1 checks
ValidateNotEmpty(v) == IsStr(v) /\ Len(v.s) >= 1 /\ Strip(v.s) # <<>>

\* mutant: validate_not_empty returns v, not v.strip()
StrippedKeep(v) == v

\* the value validate_not_empty returns
Stripped(v) == JStr(Strip(v.s))

\* kind: Literal[...] = Field(default="class")
KindOk(v) == v.t = "absent" \/ (IsStr(v) /\ v.s \in KindLiterals)

\* mutant: the field is declared without ge=0
HoursOkUnbounded(v) == v.t = "absent" \/ IsInt(v)

\* weeklyLoadHours: int = Field(default=4, ge=0)
HoursOk(v) == v.t = "absent" \/ (IsInt(v) /\ v.n >= 0)

\* mutant: a model that keeps the keys it does not declare (extra="allow")
SubjectCreateAllowsExtra(body) ==
    IF ~ValidateNotEmpty(body.name) THEN Invalid("name")
    ELSE IF ~ValidateNotEmpty(body.code) THEN Invalid("code")
    ELSE IF ~KindOk(body.kind) THEN Invalid("kind")
    ELSE IF ~HoursOk(body.weeklyLoadHours) THEN Invalid("weeklyLoadHours")
    ELSE Valid([NoData EXCEPT
                !.name = Stripped(body.name),
                !.code = Stripped(body.code),
                !.kind = IF body.kind.t = "absent" THEN JStr(DefaultKind) ELSE body.kind,
                !.weeklyLoadHours = IF body.weeklyLoadHours.t = "absent"
                                    THEN JInt(DefaultWeeklyLoadHours)
                                    ELSE body.weeklyLoadHours,
                !.objectId = body.objectId,
                !.extra = body.extra])

\* SubjectCreate(**body): the model declares name, code, kind and
\* weeklyLoadHours and no extra policy, so any other key of the body is dropped
SubjectCreate(body) ==
    IF ~ValidateNotEmpty(body.name) THEN Invalid("name")
    ELSE IF ~ValidateNotEmpty(body.code) THEN Invalid("code")
    ELSE IF ~KindOk(body.kind) THEN Invalid("kind")
    ELSE IF ~HoursOk(body.weeklyLoadHours) THEN Invalid("weeklyLoadHours")
    ELSE Valid([NoData EXCEPT
                !.name = Stripped(body.name),
                !.code = Stripped(body.code),
                !.kind = IF body.kind.t = "absent" THEN JStr(DefaultKind) ELSE body.kind,
                !.weeklyLoadHours = IF body.weeklyLoadHours.t = "absent"
                                    THEN JInt(DefaultWeeklyLoadHours)
                                    ELSE body.weeklyLoadHours])

\* mutant: the fields are required, only an explicit null leaves one unset
UnsetNullOnly(v) == v.t = "null"

\* Optional[...] = None: an absent key and an explicit null both give None
Unset(v) == v.t \in {"absent", "null"}

\* mutant: a kind left out of the body takes the default of SubjectCreate
SubjectUpdateDefaultsKind(body) ==
    IF ~(Unset(body.name) \/ ValidateNotEmpty(body.name)) THEN Invalid("name")
    ELSE IF ~(Unset(body.code) \/ ValidateNotEmpty(body.code)) THEN Invalid("code")
    ELSE IF ~(Unset(body.kind) \/ KindOk(body.kind)) THEN Invalid("kind")
    ELSE IF ~(Unset(body.weeklyLoadHours) \/ HoursOk(body.weeklyLoadHours))
         THEN Invalid("weeklyLoadHours")
    ELSE Valid([NoData EXCEPT
                !.name = IF Unset(body.name) THEN JNull ELSE Stripped(body.name),
                !.code = IF Unset(body.code) THEN JNull ELSE Stripped(body.code),
                !.kind = IF Unset(body.kind) THEN JStr(KClass) ELSE body.kind,
                !.weeklyLoadHours = IF Unset(body.weeklyLoadHours) THEN JNull
                                    ELSE body.weeklyLoadHours])

\* SubjectUpdate(**body); a field left None is JNull
SubjectUpdate(body) ==
    IF ~(Unset(body.name) \/ ValidateNotEmpty(body.name)) THEN Invalid("name")
    ELSE IF ~(Unset(body.code) \/ ValidateNotEmpty(body.code)) THEN Invalid("code")
    ELSE IF ~(Unset(body.kind) \/ KindOk(body.kind)) THEN Invalid("kind")
    ELSE IF ~(Unset(body.weeklyLoadHours) \/ HoursOk(body.weeklyLoadHours))
         THEN Invalid("weeklyLoadHours")
    ELSE Valid([NoData EXCEPT
                !.name = IF Unset(body.name) THEN JNull ELSE Stripped(body.name),
                !.code = IF Unset(body.code) THEN JNull ELSE Stripped(body.code),
                !.kind = IF Unset(body.kind) THEN JNull ELSE body.kind,
                !.weeklyLoadHours = IF Unset(body.weeklyLoadHours) THEN JNull
                                    ELSE body.weeklyLoadHours])

\* login / password: str = Field(..., min_length=1)
NonEmptyStr(v) == IsStr(v) /\ Len(v.s) >= 1

\* UserLoginRequest(**body)
UserLoginRequest(body) ==
    IF ~NonEmptyStr(body.login) THEN Invalid("login")
    ELSE IF ~NonEmptyStr(body.password) THEN Invalid("password")
    ELSE Valid([NoData EXCEPT !.login = body.login, !.password = body.password])

\* mutant: model_dump(exclude={"kind"})
ModelDumpWithoutKind(m) == [m EXCEPT !.kind = JAbsent]

\* model_dump(): every field of the model
ModelDump(m) == m

\* mutant: model_dump() without exclude_none, None fields travel as null
ModelDumpKeepNone(m) == m

\* model_dump(exclude_none=True): the fields that are not None
ModelDumpExcludeNone(m) == [k \in DOMAIN m |-> IF m[k].t = "null" THEN JAbsent ELSE m[k]]

\* a record returned by the remote; "user-token" travels in token
NoPayload ==
    [objectId |-> JAbsent, name |-> JAbsent, code |-> JAbsent, kind |-> JAbsent,
     weeklyLoadHours |-> JAbsent, created |-> JAbsent, updated |-> JAbsent,
     token |-> JAbsent, email |-> JAbsent]

ShapeOk(p) == [ok |-> TRUE, field |-> "", data |-> p]
ShapeBad(f) == [ok |-> FALSE, field |-> f, data |-> NoPayload]

OptionalInt(v) == Unset(v) \/ IsInt(v)

\* mutant: kind is declared as a plain str
SubjectAnyKind(p) ==
    IF ~IsStr(p.objectId) THEN ShapeBad("objectId")
    ELSE IF ~IsStr(p.name) THEN ShapeBad("name")
    ELSE IF ~IsStr(p.code) THEN ShapeBad("code")
    ELSE IF ~(p.kind.t = "absent" \/ IsStr(p.kind)) THEN ShapeBad("kind")
    ELSE IF ~HoursOk(p.weeklyLoadHours) THEN ShapeBad("weeklyLoadHours")
    ELSE IF ~OptionalInt(p.created) THEN ShapeBad("created")
    ELSE IF ~OptionalInt(p.updated) THEN ShapeBad("updated")
    ELSE ShapeOk([NoPayload EXCEPT
            !.objectId = p.objectId, !.name = p.name, !.code = p.code,
            !.kind = IF p.kind.t = "absent" THEN JStr(DefaultKind) ELSE p.kind,
            !.weeklyLoadHours = IF p.weeklyLoadHours.t = "absent"
                                THEN JInt(DefaultWeeklyLoadHours) ELSE p.weeklyLoadHours,
            !.created = IF Unset(p.created) THEN JNull ELSE p.created,
            !.updated = IF Unset(p.updated) THEN JNull ELSE p.updated])

\* Subject(**payload) followed by model_dump(by_alias=True)
Subject(p) ==
    IF ~IsStr(p.objectId) THEN ShapeBad("objectId")
    ELSE IF ~IsStr(p.name) THEN ShapeBad("name")
    ELSE IF ~IsStr(p.code) THEN ShapeBad("code")
    ELSE IF ~KindOk(p.kind) THEN ShapeBad("kind")
    ELSE IF ~HoursOk(p.weeklyLoadHours) THEN ShapeBad("weeklyLoadHours")
    ELSE IF ~OptionalInt(p.created) THEN ShapeBad("created")
    ELSE IF ~OptionalInt(p.updated) THEN ShapeBad("updated")
    ELSE ShapeOk([NoPayload EXCEPT
            !.objectId = p.objectId, !.name = p.name, !.code = p.code,
            !.kind = IF p.kind.t = "absent" THEN JStr(DefaultKind) ELSE p.kind,
            !.weeklyLoadHours = IF p.weeklyLoadHours.t = "absent"
                                THEN JInt(DefaultWeeklyLoadHours) ELSE p.weeklyLoadHours,
            !.created = IF Unset(p.created) THEN JNull ELSE p.created,
            !.updated = IF Unset(p.updated) THEN JNull ELSE p.updated])

\* mutant: the model keeps the fields it does not declare
UserLoginResponseKeepsExtra(p) ==
    IF ~IsStr(p.token) THEN ShapeBad("user-token")
    ELSE IF ~IsStr(p.objectId) THEN ShapeBad("objectId")
    ELSE IF ~IsStr(p.email) THEN ShapeBad("email")
    ELSE ShapeOk(p)

\* UserLoginResponse(**payload) followed by model_dump(by_alias=True)
UserLoginResponse(p) ==
    IF ~IsStr(p.token) THEN ShapeBad("user-token")
    ELSE IF ~IsStr(p.objectId) THEN ShapeBad("objectId")
    ELSE IF ~IsStr(p.email) THEN ShapeBad("email")
    ELSE ShapeOk([NoPayload EXCEPT
            !.token = p.token, !.objectId = p.objectId, !.email = p.email])

----------------------------------------------------------------------------
(* Response envelopes (app/utils/response_builder.py).                     *)

\* a text of a response body: a literal of the code (fixed), a string that
\* came from the remote or the request (chars), or a formatted rendering
TNone == [k |-> "none", fixed |-> "", chars |-> <<>>]
TFixed(str) == [k |-> "fixed", fixed |-> str, chars |-> <<>>]
TChars(c) == [k |-> "chars", fixed |-> "", chars |-> c]
\* f"Campo '{field}': {message}"
TField(f) == [k |-> "field", fixed |-> f, chars |-> <<>>]
\* str(response_data) of a remote error body
TRemoteBody == [k |-> "remote_body", fixed |-> "", chars |-> <<>>]
\* str(e) of a transport exception
TException == [k |-> "exception", fixed |-> "", chars |-> <<>>]

\* Python truthiness of a text
TextTruthy(x) == x.k \in {"fixed", "field", "remote_body", "exception"} \/ (x.k = "chars" /\ x.chars # <<>>)

\* a JSON value used where the code expects a str
AsText(v) == IF IsStr(v) THEN TChars(v.s) ELSE TNone

NoResponse ==
    [status |-> 0, envelope |-> "none", message |-> TNone, code |-> 0, details |-> TNone,
     data |-> <<>>, total |-> JAbsent, count |-> 0, offset |-> 0]

\* mutant: details goes into the body even when it is empty
error_response_keeps_details(message, code, details) ==
    [NoResponse EXCEPT !.status = code, !.envelope = "error", !.message = message,
                       !.code = code, !.details = details]

\* error_response(message, code, details)
error_response(message, code, details) ==
    [NoResponse EXCEPT !.status = code, !.envelope = "error", !.message = message,
                       !.code = code,
                       !.details = IF TextTruthy(details) THEN details ELSE TNone]

\* success_response(data, status)
success_response(data, status) ==
    [NoResponse EXCEPT !.status = status, !.envelope = "success", !.data = <<data>>]

created_response(data) == success_response(data, 201)

\* mutant: the empty response goes out with 200
no_content_response_200 == [NoResponse EXCEPT !.status = 200, !.envelope = "empty"]

\* no_content_response
no_content_response == [NoResponse EXCEPT !.status = 204, !.envelope = "empty"]

\* paginated_response(results, total, count, offset)
paginated_response(results, tot, count, offset) ==
    [NoResponse EXCEPT !.status = 200, !.envelope = "paginated", !.data = results,
                       !.total = tot, !.count = count, !.offset = offset]

unauthorized_response(message) == error_response(message, 401, TNone)

bad_request_response(message, details) == error_response(message, 400, details)

----------------------------------------------------------------------------
(* Global error handlers (app/middleware/error_handler.py).                *)

NotFoundNeedle == <<"n", "o", "t", " ", "f", "o", "u", "n", "d">>
InvalidNeedle == <<"i", "n", "v", "a", "l", "i", "d">>

\* handle_validation_error
handle_validation_error(field) ==
    error_response(TFixed("Parametros invalidos"), 400, TField(field))

\* mutant: the handler answers every HTTP exception with 500
handle_http_exception_500(code, description) ==
    error_response(TFixed(description), 500, TNone)

\* handle_http_exception: werkzeug's HTTPException carries code and description
handle_http_exception(code, description) ==
    error_response(TFixed(description), code, TNone)

\* handle_not_found: the URL matches no rule
handle_not_found ==
    error_response(TFixed("No encontrado"), 404, TFixed("El recurso solicitado no existe"))

\* handle_method_not_allowed: the rule of the URL does not take the method
handle_method_not_allowed ==
    error_response(TFixed("Metodo no permitido"), 405,
                   TFixed("El metodo HTTP usado no esta permitido para este endpoint"))

\* handle_internal_error: the handler Flask runs for an InternalServerError,
\* which is what an exception raised inside another error handler becomes
handle_internal_error ==
    error_response(TFixed("Error interno del servidor"), 500,
                   TFixed("Ha ocurrido un error inesperado. Por favor, intente mas tarde."))

\* handle_unexpected_error: any exception no other handler is registered for
handle_unexpected_error ==
    error_response(TFixed("Error inesperado"), 500,
                   TFixed("Ha ocurrido un error inesperado. Por favor, contacte al administrador."))

\* BackendlessClientError(message, status_code, details)
BackendlessClientError(message, status_code, details) ==
    [message |-> message, status_code |-> status_code, details |-> details]

\* mutant: an unset status_code falls back to 400
EffectiveStatusOr400(error) ==
    IF IsInt(error.status_code) /\ error.status_code.n # 0 THEN error.status_code.n ELSE 400

\* status_code = error.status_code or 500
EffectiveStatus(error) ==
    IF IsInt(error.status_code) /\ error.status_code.n # 0 THEN error.status_code.n ELSE 500

\* "not found" in error.message.lower()
SaysNotFound(error) == Contains(Lower(error.message.s), NotFoundNeedle)

\* "invalid" in error.message.lower()
SaysInvalid(error) == Contains(Lower(error.message.s), InvalidNeedle)

\* handle_backendless_error
handle_backendless_error(error) ==
    LET status_code == EffectiveStatus(error) IN
    IF status_code = 404
    THEN error_response(TFixed("No encontrado"), 404, AsText(error.message))
    ELSE IF ~IsStr(error.message)
    \* error.message.lower() raises AttributeError inside the handler
    THEN handle_internal_error
    ELSE IF SaysNotFound(error)
    THEN error_response(TFixed("No encontrado"), 404, AsText(error.message))
    ELSE IF status_code = 401 \/ SaysInvalid(error)
    THEN error_response(TFixed("Token invalido o expirado"), 401, AsText(error.message))
    ELSE IF status_code = 403
    THEN error_response(TFixed("Acceso denegado"), 403, AsText(error.message))
    ELSE error_response(IF Truthy(error.message) THEN AsText(error.message)
                        ELSE TFixed("Error en el servidor"),
                        status_code, error.details)

----------------------------------------------------------------------------
(* The gateway (app/services/backendless_client.py).                       *)

UnknownErrorMessage == <<"U", "n", "k", "n", "o", "w", "n", " ", "e", "r", "r", "o", "r", " ", "o", "c", "c", "u", "r", "r", "e", "d">>
ConnectFailedMessage == <<"F", "a", "i", "l", "e", "d", " ", "t", "o", " ", "c", "o", "n", "n", "e", "c", "t", " ", "t", "o", " ", "B", "a", "c", "k", "e", "n", "d", "l", "e", "s", "s">>
LoginErrorMessage == <<"E", "r", "r", "o", "r", " ", "d", "u", "r", "i", "n", "g", " ", "a", "u", "t", "h", "e", "n", "t", "i", "c", "a", "t", "i", "o", "n">>
CreateErrorMessage == <<"E", "r", "r", "o", "r", " ", "c", "r", "e", "a", "t", "i", "n", "g", " ", "o", "b", "j", "e", "c", "t", " ", "i", "n", " ", "S", "u", "b", "j", "e", "c", "t", "s">>
GetErrorMessage == <<"E", "r", "r", "o", "r", " ", "r", "e", "t", "r", "i", "e", "v", "i", "n", "g", " ", "o", "b", "j", "e", "c", "t", " ", "f", "r", "o", "m", " ", "S", "u", "b", "j", "e", "c", "t", "s">>
ListErrorMessage == <<"E", "r", "r", "o", "r", " ", "l", "i", "s", "t", "i", "n", "g", " ", "o", "b", "j", "e", "c", "t", "s", " ", "f", "r", "o", "m", " ", "S", "u", "b", "j", "e", "c", "t", "s">>
UpdateErrorMessage == <<"E", "r", "r", "o", "r", " ", "u", "p", "d", "a", "t", "i", "n", "g", " ", "o", "b", "j", "e", "c", "t", " ", "i", "n", " ", "S", "u", "b", "j", "e", "c", "t", "s">>
DeleteErrorMessage == <<"E", "r", "r", "o", "r", " ", "d", "e", "l", "e", "t", "i", "n", "g", " ", "o", "b", "j", "e", "c", "t", " ", "f", "r", "o", "m", " ", "S", "u", "b", "j", "e", "c", "t", "s">>
CountErrorMessage == <<"E", "r", "r", "o", "r", " ", "c", "o", "u", "n", "t", "i", "n", "g", " ", "o", "b", "j", "e", "c", "t", "s", " ", "i", "n", " ", "S", "u", "b", "j", "e", "c", "t", "s">>

\* the gateway methods
Methods == {"login", "create", "get_by_id", "list", "update", "delete", "count"}

\* the message of the RequestException branch of each method
OperationMessage(method) ==
    CASE method = "login" -> LoginErrorMessage
      [] method = "create" -> CreateErrorMessage
      [] method = "get_by_id" -> GetErrorMessage
      [] method = "list" -> ListErrorMessage
      [] method = "update" -> UpdateErrorMessage
      [] method = "delete" -> DeleteErrorMessage
      [] method = "count" -> CountErrorMessage

\* the remote's answer to one HTTP call: a transport failure, or an HTTP
\* response whose body is empty, not JSON (text), or a JSON object, list or
\* number
NoReply ==
    [kind |-> "none", status |-> 0, form |-> "empty", message |-> JAbsent, code |-> JAbsent,
     fields |-> NoPayload, items |-> <<>>, number |-> 0]

\* what a gateway method hands back: a returned value, a raised
\* BackendlessClientError, or another exception escaping the method (crash)
NoValue == [form |-> "none", fields |-> NoPayload, items |-> <<>>, number |-> 0]
NoError == BackendlessClientError(JAbsent, JNull, TNone)
Return(v) == [k |-> "return", value |-> v, error |-> NoError]
Raise(e) == [k |-> "raise", value |-> NoValue, error |-> e]
Crash == [k |-> "crash", value |-> NoValue, error |-> NoError]

\* response.json() if response.content else {}, {} on a ValueError
ResponseData(r) ==
    IF r.form \in {"empty", "text"}
    THEN [form |-> "object", fields |-> NoPayload, items |-> <<>>, number |-> 0]
    ELSE [form |-> r.form, fields |-> r.fields, items |-> r.items, number |-> r.number]

\* response_data.get('message', 'Unknown error occurred')
ErrorMessageOf(r) ==
    IF r.form = "object" /\ r.message.t # "absent" THEN r.message ELSE JStr(UnknownErrorMessage)

\* response_data.get('code', response.status_code)
ErrorCodeOf(r) ==
    IF r.form = "object" /\ r.code.t # "absent" THEN r.code ELSE JInt(r.status)

\* _handle_response
HandleResponse(r) ==
    IF r.status >= 400
    THEN IF r.form \in {"list", "number"}
         \* response_data.get raises AttributeError on a list or a number
         THEN Crash
         ELSE Raise(BackendlessClientError(ErrorMessageOf(r), ErrorCodeOf(r), TRemoteBody))
    ELSE Return(ResponseData(r))

\* the try / except around the HTTP call of every method
Transport(method, r) ==
    IF r.kind \in {"timeout", "connection"}
    THEN Raise(BackendlessClientError(JStr(ConnectFailedMessage), JNull, TException))
    ELSE IF r.kind = "request_exception"
    THEN Raise(BackendlessClientError(JStr(OperationMessage(method)), JNull, TException))
    ELSE IF method = "delete"
    \* delete reads the body of an error response only, and returns None
    THEN IF r.status >= 400 THEN HandleResponse(r) ELSE Return(NoValue)
    ELSE HandleResponse(r)

\* _build_headers: the user-token header of the outbound request
\* mutant: the user-token header is never set
BuildHeadersWithoutToken(user_token) == [t |-> "absent", s |-> <<>>, n |-> 0]
BuildHeaders(user_token) == IF Truthy(user_token) THEN user_token ELSE JAbsent

\* list: page_size = min(max(1, page_size), 100)
Max(a, b) == IF a >= b THEN a ELSE b
Min(a, b) == IF a <= b THEN a ELSE b
\* mutant: the lower bound is forgotten
ClampPageSizeUpperOnly(page_size) == Min(page_size, MaxPageSize)
ClampPageSize(page_size) == Min(Max(MinPageSize, page_size), MaxPageSize)

\* list: offset = max(0, offset)
ClampOffset(offset) == Max(0, offset)

\* the outbound HTTP request of a gateway call
NoCall ==
    [method |-> "", object_id |-> <<>>, data |-> NoData, pageSize |-> JAbsent,
     offset |-> JAbsent, where |-> JAbsent, user_token |-> JAbsent]

\* params["where"] = where_clause, when where_clause is truthy
WhereParam(where_clause) == IF Truthy(where_clause) THEN where_clause ELSE JAbsent

----------------------------------------------------------------------------
(* Inputs: the requests a client can send and the answers the remote can   *)
(* give.                                                                   *)

\* most records in one page the remote returns
MaxItems == 2

Routes == {"login", "list", "create", "get", "update", "delete"}
SubjectRoutes == Routes \ {"login"}
BodyRoutes == {"login", "create", "update"}

\* the user-token header: not sent, sent empty, sent with a token
Tokens == {JAbsent, JStr(<<>>), JStr(<<"t">>)}

Ids == {<<"i">>, <<"j">>}

\* what the request body is: not parseable, sent without a JSON content
\* type, or a JSON null, array, string, number or object
BodyForms == {"malformed", "not_json", "null", "array", "string", "number", "object"}

StrFields == {JAbsent, JNull, JOther} \cup {JStr(x) : x \in Strings}
\* code takes the strings that differ in emptiness and surrounding whitespace
CodeFields ==
    {JAbsent, JNull, JOther, JStr(<<>>), JStr(<<" ">>), JStr(<<"a">>), JStr(<<"a", " ">>)}
KindFields == {JAbsent, JNull, JStr(KExam), JStr(KQuiz)}
HoursFields == {JAbsent, JNull, JOther, JInt(-1), JInt(0)}
PasswordFields == {JAbsent, JStr(<<>>), JStr(<<"a">>)}

\* a JSON object body: the keys the schemas declare, the objectId a caller
\* may put in it, and extra for any other key (created, updated, unknown)
NoBody ==
    [name |-> JAbsent, code |-> JAbsent, kind |-> JAbsent, weeklyLoadHours |-> JAbsent,
     login |-> JAbsent, password |-> JAbsent, objectId |-> JAbsent, extra |-> JAbsent]

SubjectBodies ==
    {[NoBody EXCEPT !.name = n, !.code = c, !.kind = k, !.weeklyLoadHours = h] :
        n \in StrFields, c \in CodeFields, k \in KindFields, h \in HoursFields}

\* bodies that also carry keys SubjectCreate does not declare
ExtraKeys == {JStr(<<"j">>), JNull, JOther}
ExtraKeyBodies ==
    {[NoBody EXCEPT !.name = n, !.code = JStr(<<"a">>), !.kind = k, !.objectId = o,
                    !.extra = x] :
        n \in {JAbsent, JStr(<<"a">>)}, k \in {JAbsent, JStr(KQuiz)},
        o \in ExtraKeys \cup {JAbsent}, x \in ExtraKeys \cup {JAbsent}}

LoginBodies ==
    {[NoBody EXCEPT !.login = l, !.password = p] : l \in StrFields, p \in PasswordFields}

\* query parameters of GET /subjects, as request.args.get(..., type=int) sees
\* them: absent, not an integer (JOther), or an integer
PageSizeArgs == {JAbsent, JOther} \cup {JInt(n) : n \in {-5, 0, 1, 100, 101, 500}}
OffsetArgs == {JAbsent, JOther} \cup {JInt(n) : n \in {-5, 0, 7}}
\* the code parameter: absent, empty, a code, a single quote
CodeArgs == {JAbsent, JStr(<<>>), JStr(<<"a">>), JStr(<<"'">>)}

NoRequest ==
    [route |-> "", token |-> JAbsent, form |-> "none", body |-> NoBody,
     pageSize |-> JAbsent, offset |-> JAbsent, code |-> JAbsent, id |-> <<>>]

\* requests Flask answers without a view function: no URL rule matches, or
\* the rule does not take the method
Unrouted == {"no_rule", "no_method"}

Requests ==
    {[NoRequest EXCEPT !.route = r] : r \in Unrouted}
    \cup {[NoRequest EXCEPT !.route = "login", !.token = tk, !.form = f] :
        tk \in Tokens, f \in BodyForms \ {"object"}}
    \cup {[NoRequest EXCEPT !.route = "login", !.token = tk, !.form = "object", !.body = b] :
        tk \in {JAbsent, JStr(<<"t">>)}, b \in LoginBodies}
    \cup {[NoRequest EXCEPT !.route = r, !.token = tk, !.form = f, !.id = <<"i">>] :
        r \in {"create", "update"}, tk \in Tokens, f \in BodyForms \ {"object"}}
    \cup {[NoRequest EXCEPT !.route = "create", !.token = tk, !.form = "object", !.body = b] :
        tk \in Tokens, b \in SubjectBodies \cup ExtraKeyBodies}
    \cup {[NoRequest EXCEPT !.route = "update", !.token = tk, !.form = "object", !.body = b,
                            !.id = <<"i">>] :
        tk \in Tokens, b \in SubjectBodies}
    \cup {[NoRequest EXCEPT !.route = r, !.token = tk, !.id = i] :
        r \in {"get", "delete"}, tk \in Tokens, i \in Ids}
    \cup {[NoRequest EXCEPT !.route = "list", !.token = tk, !.pageSize = ps, !.offset = o,
                            !.code = c] :
        tk \in Tokens, ps \in PageSizeArgs, o \in OffsetArgs, c \in CodeArgs}

MsgEntityNotFound == <<"E", "n", "t", "i", "t", "y", " ", "N", "o", "t", " ", "F", "o", "u", "n", "d">>
MsgInvalidToken == <<"I", "N", "V", "A", "L", "I", "D", " ", "t", "o", "k", "e", "n">>
MsgServerBusy == <<"S", "e", "r", "v", "e", "r", " ", "b", "u", "s", "y">>

ErrorStatuses == {401, 403, 404, 500}
ErrorCodes == {JAbsent, JNull, JInt(0), JInt(404), JInt(1000)}
ErrorMessages ==
    {JAbsent, JNull, JStr(<<>>), JStr(MsgEntityNotFound), JStr(MsgInvalidToken),
     JStr(MsgServerBusy)}

TransportFailures ==
    {[NoReply EXCEPT !.kind = k] : k \in {"timeout", "connection", "request_exception"}}

ErrorReplies ==
    {[NoReply EXCEPT !.kind = "http", !.status = st, !.form = "object", !.message = m,
                     !.code = c] :
        st \in ErrorStatuses, m \in ErrorMessages, c \in ErrorCodes}
    \cup {[NoReply EXCEPT !.kind = "http", !.status = st, !.form = f] :
        st \in ErrorStatuses, f \in {"empty", "text", "list", "number"}}

\* a record the remote stores, complete and well-typed
GoodSubject ==
    [NoPayload EXCEPT !.objectId = JStr(<<"i">>), !.name = JStr(<<"a">>),
                      !.code = JStr(<<"a">>), !.kind = JStr(KExam),
                      !.weeklyLoadHours = JInt(0), !.created = JInt(1), !.updated = JInt(1)]

\* the complete record and the records that differ from it in one field
SubjectPayloads ==
    {GoodSubject,
     [GoodSubject EXCEPT !.objectId = JAbsent],
     [GoodSubject EXCEPT !.objectId = JNull],
     [GoodSubject EXCEPT !.name = JAbsent],
     [GoodSubject EXCEPT !.code = JAbsent],
     [GoodSubject EXCEPT !.kind = JAbsent],
     [GoodSubject EXCEPT !.kind = JStr(KQuiz)],
     [GoodSubject EXCEPT !.weeklyLoadHours = JAbsent],
     [GoodSubject EXCEPT !.weeklyLoadHours = JInt(-1)],
     [GoodSubject EXCEPT !.created = JAbsent],
     [GoodSubject EXCEPT !.updated = JOther]}

GoodLogin ==
    [NoPayload EXCEPT !.token = JStr(<<"t">>), !.objectId = JStr(<<"i">>),
                      !.email = JStr(<<"a">>)]

LoginPayloads ==
    {GoodLogin,
     [GoodLogin EXCEPT !.name = JStr(<<"a">>)],
     [GoodLogin EXCEPT !.token = JAbsent],
     [GoodLogin EXCEPT !.objectId = JAbsent],
     [GoodLogin EXCEPT !.email = JNull]}

RECURSIVE SeqsUpTo(_, _)
SeqsUpTo(S, n) ==
    IF n = 0 THEN {<<>>}
    ELSE LET shorter == SeqsUpTo(S, n - 1)
         IN  shorter \cup {Append(q, x) : q \in {y \in shorter : Len(y) = n - 1}, x \in S}

Pages ==
    SeqsUpTo({GoodSubject, [GoodSubject EXCEPT !.kind = JStr(KQuiz)],
              [GoodSubject EXCEPT !.kind = JAbsent]}, MaxItems)

Ok(form) == [NoReply EXCEPT !.kind = "http", !.status = 200, !.form = form]

\* the 2xx answers the remote can give to each method
SuccessReplies(method) ==
    CASE method \in {"create", "get_by_id", "update"} ->
            {[Ok("object") EXCEPT !.fields = p] : p \in SubjectPayloads}
            \cup {Ok("empty"), Ok("list"), Ok("number")}
      [] method = "login" ->
            {[Ok("object") EXCEPT !.fields = p] : p \in LoginPayloads}
            \cup {Ok("empty"), Ok("list")}
      [] method = "delete" -> {Ok("empty"), Ok("number")}
      [] method = "count" ->
            {[Ok("number") EXCEPT !.number = n] : n \in 0..MaxItems} \cup {Ok("text")}
      [] method = "list" ->
            {[Ok("list") EXCEPT !.items = p] : p \in Pages}
            \cup {Ok("empty"), Ok("number"), [Ok("object") EXCEPT !.fields = GoodSubject]}

Replies(method) == TransportFailures \cup ErrorReplies \cup SuccessReplies(method)

----------------------------------------------------------------------------
(* Route handlers (app/routes/auth.py, app/routes/subjects.py), step by    *)
(* step.                                                                   *)

\* the Config the running application holds: create_app has validated it
AppConfig == [app_id |-> JStr(<<"k">>), api_key |-> JStr(<<"k">>)]

\* a remote table without records
NoRecords == [i \in Ids |-> NoPayload]

\* no request was served yet
NoExchange == [req |-> NoRequest, resp |-> NoResponse, before |-> NoRecords, n |-> 0]

\* a request handled by the application leaves the Config object, and what
\* lies outside the request, alone
Quiet == UNCHANGED <<config, client, store, before, prev>>

Init ==
    /\ pc = "idle"
    /\ req = NoRequest
    /\ reply = NoReply
    /\ g_token = JAbsent
    /\ validated = NoData
    /\ calls = <<>>
    /\ total = JAbsent
    /\ result = NoValue
    /\ steps = <<>>
    /\ resp = NoResponse
    /\ config = AppConfig
    /\ client = "none"
    /\ store = NoRecords
    /\ before = NoRecords
    /\ prev = NoExchange

\* the exception or early return of a step ends the request with response r
Terminate(r) ==
    /\ resp' = r
    /\ pc' = "done"

\* a request arrives and Flask dispatches it to its view function
Receive ==
    /\ pc = "idle"
    /\ \E r \in Requests :
        /\ req' = r
        /\ CASE r.route = "no_rule" -> Terminate(handle_not_found)
             [] r.route = "no_method" -> Terminate(handle_method_not_allowed)
             [] r.route = "login" -> pc' = "parse" /\ UNCHANGED resp
             [] OTHER -> pc' = "auth" /\ UNCHANGED resp
    /\ UNCHANGED <<reply, g_token, validated, calls, total, result, steps>>
    /\ Quiet

\* mutant: create and update go to the gateway without reading the body
FirstStepSkipsValidation(route) == IF route = "list" THEN "count" ELSE "call"

\* where the view function of a subject route starts, once the token is there
FirstStep(route) ==
    CASE route \in {"create", "update"} -> "parse"
      [] route = "list" -> "count"
      [] OTHER -> "call"

\* mutant: the check tests for an empty header only and lets a missing one pass
TokenMissingEmptyOnly(user_token) == user_token = JStr(<<>>)

\* require_auth: if not user_token
TokenMissing(user_token) == ~Truthy(user_token)

\* require_auth.decorated_function
RequireAuth ==
    /\ pc = "auth"
    /\ steps' = Append(steps, "auth")
    /\ IF TokenMissing(req.token)
       THEN /\ Terminate(unauthorized_response(TFixed("Token invalido o expirado")))
            /\ UNCHANGED g_token
       ELSE /\ g_token' = req.token
            /\ pc' = FirstStep(req.route)
            /\ UNCHANGED resp
    /\ UNCHANGED <<req, reply, validated, calls, total, result>>
    /\ Quiet

\* request.get_json() and the None check of login, create_subject, update_subject
ParseBody ==
    /\ pc = "parse"
    /\ steps' = Append(steps, "parse")
    /\ CASE req.form = "malformed" ->
                \* get_json raises werkzeug's BadRequest
                Terminate(handle_http_exception(400, "Bad Request"))
         [] req.form = "not_json" ->
                \* get_json raises werkzeug's UnsupportedMediaType
                Terminate(handle_http_exception(415, "Unsupported Media Type"))
         [] req.form = "null" ->
                Terminate(bad_request_response(TFixed("Solicitud invalida"),
                                               TFixed("Request body must be valid JSON")))
         [] OTHER -> pc' = "validate" /\ UNCHANGED resp
    /\ UNCHANGED <<req, reply, g_token, validated, calls, total, result>>
    /\ Quiet

\* the request schema of a route
RequestSchema(route, body) ==
    CASE route = "login" -> UserLoginRequest(body)
      [] route = "create" -> SubjectCreate(body)
      [] route = "update" -> SubjectUpdate(body)

\* UserLoginRequest(**request_data), SubjectCreate(**request_data),
\* SubjectUpdate(**request_data)
ValidateRequest ==
    /\ pc = "validate"
    /\ steps' = Append(steps, "validate")
    /\ IF req.form # "object"
       \* ** on a value that is no mapping raises TypeError
       THEN Terminate(handle_unexpected_error) /\ UNCHANGED validated
       ELSE LET v == RequestSchema(req.route, req.body) IN
            IF v.ok
            THEN validated' = v.data /\ pc' = "call" /\ UNCHANGED resp
            ELSE Terminate(handle_validation_error(v.field)) /\ UNCHANGED validated
    /\ UNCHANGED <<req, reply, g_token, calls, total, result>>
    /\ Quiet

\* the gateway method a route calls
MethodOf(route) == IF route = "get" THEN "get_by_id" ELSE route

\* the HTTP request BackendlessClient sends for login, create, get_by_id,
\* update and delete
OutboundCall(route) ==
    CASE route = "login" ->
            [NoCall EXCEPT !.method = "login",
                           !.data = [NoData EXCEPT !.login = validated.login,
                                                   !.password = validated.password],
                           !.user_token = BuildHeaders(JAbsent)]
      [] route = "create" ->
            [NoCall EXCEPT !.method = "create", !.data = ModelDump(validated),
                           !.user_token = BuildHeaders(g_token)]
      [] route = "update" ->
            [NoCall EXCEPT !.method = "update", !.object_id = req.id,
                           !.data = ModelDumpExcludeNone(validated),
                           !.user_token = BuildHeaders(g_token)]
      [] route \in {"get", "delete"} ->
            [NoCall EXCEPT !.method = MethodOf(route), !.object_id = req.id,
                           !.user_token = BuildHeaders(g_token)]

\* mutant: a failed call is tried again
FailedRetries(out) == pc' = pc /\ UNCHANGED resp

\* a gateway call raised: the error handler Flask picks answers the request
Failed(out) ==
    IF out.k = "raise"
    THEN Terminate(handle_backendless_error(out.error))
    ELSE Terminate(handle_unexpected_error)

\* backendless_client.login / create / get_by_id / update / delete, the
\* remote answering r
Gateway(r) ==
    LET out == Transport(MethodOf(req.route), r) IN
    /\ steps' = Append(steps, "gateway")
    /\ calls' = Append(calls, OutboundCall(req.route))
    /\ reply' = r
    /\ IF out.k = "return"
       THEN /\ result' = out.value
            /\ pc' = IF req.route = "delete" THEN "format" ELSE "shape"
            /\ UNCHANGED resp
       ELSE Failed(out) /\ UNCHANGED result
    /\ UNCHANGED <<req, g_token, validated, total>>

\* the gateway call of a route, the remote answering in any way it can
CallGateway ==
    /\ pc = "call"
    /\ \E r \in Replies(MethodOf(req.route)) : Gateway(r)
    /\ Quiet

\* request.args.get('pageSize', 50, type=int)
PageSizeArg(r) == IF IsInt(r.pageSize) THEN r.pageSize.n ELSE DefaultPageSize

\* request.args.get('offset', 0, type=int)
OffsetArg(r) == IF IsInt(r.offset) THEN r.offset.n ELSE DefaultOffset

\* mutant: a quote in the value is doubled before it goes into the clause
RECURSIVE EscapeQuotes(_)
EscapeQuotes(str) ==
    IF str = <<>> THEN <<>>
    ELSE (IF Head(str) = "'" THEN <<"'", "'">> ELSE <<Head(str)>>) \o EscapeQuotes(Tail(str))
WhereClauseEscaped(code_filter) ==
    IF Truthy(code_filter)
    THEN JStr(<<"c", "o", "d", "e", "=", "'">> \o EscapeQuotes(code_filter.s) \o <<"'">>)
    ELSE JNull

\* where_clause = f"code='{code_filter}'" when code_filter is truthy, else None
WhereClause(code_filter) ==
    IF Truthy(code_filter)
    THEN JStr(<<"c", "o", "d", "e", "=", "'">> \o code_filter.s \o <<"'">>)
    ELSE JNull

\* the value count returns, as list_subjects holds it in total
AsTotal(v) == IF v.form = "number" THEN JInt(v.number) ELSE JOther

\* list_subjects: backendless_client.count
CallCount ==
    /\ pc = "count"
    /\ steps' = Append(steps, "gateway")
    /\ calls' = Append(calls, [NoCall EXCEPT !.method = "count",
                                             !.where = WhereParam(WhereClause(req.code)),
                                             !.user_token = BuildHeaders(g_token)])
    /\ \E r \in Replies("count") :
        LET out == Transport("count", r) IN
        /\ reply' = r
        /\ IF out.k = "return"
           THEN total' = AsTotal(out.value) /\ pc' = "list" /\ UNCHANGED resp
           ELSE Failed(out) /\ UNCHANGED total
    /\ UNCHANGED <<req, g_token, validated, result>>
    /\ Quiet

\* list_subjects: backendless_client.list
CallList ==
    /\ pc = "list"
    /\ steps' = Append(steps, "gateway")
    /\ calls' = Append(calls, [NoCall EXCEPT !.method = "list",
                                             !.pageSize = JInt(ClampPageSize(PageSizeArg(req))),
                                             !.offset = JInt(ClampOffset(OffsetArg(req))),
                                             !.where = WhereParam(WhereClause(req.code)),
                                             !.user_token = BuildHeaders(g_token)])
    /\ \E r \in Replies("list") :
        LET out == Transport("list", r) IN
        /\ reply' = r
        /\ IF out.k = "return"
           THEN result' = out.value /\ pc' = "shape" /\ UNCHANGED resp
           ELSE Failed(out) /\ UNCHANGED result
    /\ UNCHANGED <<req, g_token, validated, total>>
    /\ Quiet

\* the response schema of a route
ResponseSchema(route, payload) ==
    IF route = "login" THEN UserLoginResponse(payload) ELSE Subject(payload)

\* [Subject(**subject) for subject in subjects_data] raises at the first
\* record that fails
FirstInvalid(items) ==
    IF \E i \in 1..Len(items) : ~Subject(items[i]).ok
    THEN CHOOSE i \in 1..Len(items) :
            /\ ~Subject(items[i]).ok
            /\ \A j \in 1..(i - 1) : Subject(items[j]).ok
    ELSE 0

\* Subject(**created_subject) and its siblings, with model_dump(by_alias=True)
ValidateResponse ==
    /\ pc = "shape"
    /\ steps' = Append(steps, "shape")
    /\ IF req.route = "list"
       THEN CASE result.form = "list" ->
                    LET bad == FirstInvalid(result.items) IN
                    IF bad = 0
                    THEN /\ result' = [result EXCEPT
                                !.items = [i \in 1..Len(result.items) |->
                                              Subject(result.items[i]).data]]
                         /\ pc' = "format"
                         /\ UNCHANGED resp
                    ELSE /\ Terminate(handle_validation_error(Subject(result.items[bad]).field))
                         /\ UNCHANGED result
              [] result.form = "object" /\ result.fields = NoPayload ->
                    \* iterating an empty dict yields no record
                    /\ result' = [result EXCEPT !.form = "list", !.items = <<>>]
                    /\ pc' = "format"
                    /\ UNCHANGED resp
              [] OTHER ->
                    \* iterating a number, or ** on a dict key, raises TypeError
                    Terminate(handle_unexpected_error) /\ UNCHANGED result
       ELSE IF result.form # "object"
            THEN Terminate(handle_unexpected_error) /\ UNCHANGED result
            ELSE LET v == ResponseSchema(req.route, result.fields) IN
                 IF v.ok
                 THEN /\ result' = [result EXCEPT !.fields = v.data]
                      /\ pc' = "format"
                      /\ UNCHANGED resp
                 ELSE Terminate(handle_validation_error(v.field)) /\ UNCHANGED result
    /\ UNCHANGED <<req, reply, g_token, validated, calls, total>>
    /\ Quiet

\* the success envelope of each route
FormatResponse ==
    /\ pc = "format"
    /\ steps' = Append(steps, "format")
    /\ Terminate(
        CASE req.route = "create" -> created_response(result.fields)
          [] req.route = "delete" -> no_content_response
          [] req.route = "list" ->
                paginated_response(result.items, total, Len(result.items), OffsetArg(req))
          [] OTHER -> success_response(result.fields, 200))
    /\ UNCHANGED <<req, reply, g_token, validated, calls, total, result>>
    /\ Quiet

\* the response is sent; nothing of the request survives it
Finish ==
    /\ pc = "done"
    /\ pc' = "idle"
    /\ req' = NoRequest
    /\ reply' = NoReply
    /\ g_token' = JAbsent
    /\ validated' = NoData
    /\ calls' = <<>>
    /\ total' = JAbsent
    /\ result' = NoValue
    /\ steps' = <<>>
    /\ resp' = NoResponse
    /\ Quiet

Next ==
    \/ Receive
    \/ RequireAuth
    \/ ParseBody
    \/ ValidateRequest
    \/ CallGateway
    \/ CallCount
    \/ CallList
    \/ ValidateResponse
    \/ FormatResponse
    \/ Finish

Spec == Init /\ [][Next]_vars

----------------------------------------------------------------------------
(* A session of requests against a remote table that keeps what it is      *)
(* sent: create stores the record under a new objectId, update overwrites  *)
(* the fields it is given, get_by_id echoes the stored record, delete      *)
(* removes it.                                                             *)

\* most requests of one session
MaxRequests == 3

\* the record the remote stores for a create call
Stored(id, data) ==
    [NoPayload EXCEPT !.objectId = JStr(id), !.name = data.name, !.code = data.code,
                      !.kind = data.kind, !.weeklyLoadHours = data.weeklyLoadHours,
                      !.created = JInt(1), !.updated = JNull]

\* the stored record after an update call: the fields of the PUT body
\* replace the stored ones, the others stay
Merged(rec, data) ==
    [rec EXCEPT !.name = IF data.name.t = "absent" THEN @ ELSE data.name,
                !.code = IF data.code.t = "absent" THEN @ ELSE data.code,
                !.kind = IF data.kind.t = "absent" THEN @ ELSE data.kind,
                !.weeklyLoadHours = IF data.weeklyLoadHours.t = "absent" THEN @
                                    ELSE data.weeklyLoadHours,
                !.updated = JInt(2)]

\* the objectId the remote assigns to the next record
NewId(st) == IF st[<<"i">>] = NoPayload THEN <<"i">> ELSE <<"j">>

Full(st) == \A i \in Ids : st[i] # NoPayload

\* the remote's answer for an identifier it does not hold
RemoteNotFound ==
    [NoReply EXCEPT !.kind = "http", !.status = 404, !.form = "object",
                    !.message = JStr(MsgEntityNotFound), !.code = JInt(1000)]

\* the remote's answer when the table takes no more records
RemoteRefuses ==
    [NoReply EXCEPT !.kind = "http", !.status = 400, !.form = "object",
                    !.message = JStr(MsgServerBusy)]

\* the records the remote holds after a call
RemoteApply(st, call) ==
    CASE call.method = "create" /\ ~Full(st) ->
            [st EXCEPT ![NewId(st)] = Stored(NewId(st), call.data)]
      [] call.method = "update" /\ st[call.object_id] # NoPayload ->
            [st EXCEPT ![call.object_id] = Merged(@, call.data)]
      [] call.method = "delete" -> [st EXCEPT ![call.object_id] = NoPayload]
      [] OTHER -> st

\* the remote's answer to a call
RemoteAnswer(st, call) ==
    CASE call.method = "create" ->
            IF Full(st) THEN RemoteRefuses
            ELSE [Ok("object") EXCEPT !.fields = RemoteApply(st, call)[NewId(st)]]
      [] call.method \in {"get_by_id", "update"} ->
            IF st[call.object_id] = NoPayload THEN RemoteNotFound
            ELSE [Ok("object") EXCEPT !.fields = RemoteApply(st, call)[call.object_id]]
      [] call.method = "delete" ->
            IF st[call.object_id] = NoPayload THEN RemoteNotFound ELSE Ok("empty")

SessionToken == JStr(<<"t">>)

\* the bodies of the session's POST /subjects
SessionCreates ==
    {[NoBody EXCEPT !.name = JStr(<<" ", "a">>), !.code = JStr(<<"a", " ">>), !.kind = k] :
        k \in {JAbsent, JStr(KTask)}}

\* the bodies of the session's PUT /subjects/{id}
SessionUpdates ==
    {[NoBody EXCEPT !.name = JStr(<<"a", "a">>)],
     [NoBody EXCEPT !.code = JStr(<<" ", "a">>)],
     [NoBody EXCEPT !.kind = JStr(KProject)],
     [NoBody EXCEPT !.kind = JNull],
     [NoBody EXCEPT !.weeklyLoadHours = JInt(2)],
     [NoBody EXCEPT !.name = JStr(<<" ">>)],
     NoBody}

SessionRequests ==
    {[NoRequest EXCEPT !.route = "create", !.token = SessionToken, !.form = "object",
                       !.body = b] : b \in SessionCreates}
    \cup {[NoRequest EXCEPT !.route = "update", !.token = SessionToken, !.form = "object",
                            !.body = b, !.id = <<"i">>] : b \in SessionUpdates}
    \cup {[NoRequest EXCEPT !.route = r, !.token = SessionToken, !.id = i] :
            r \in {"get", "delete"}, i \in Ids}

StoreInit ==
    /\ pc = "idle"
    /\ req = NoRequest
    /\ reply = NoReply
    /\ g_token = JAbsent
    /\ validated = NoData
    /\ calls = <<>>
    /\ total = JAbsent
    /\ result = NoValue
    /\ steps = <<>>
    /\ resp = NoResponse
    /\ config = AppConfig
    /\ client = "none"
    /\ store \in {NoRecords, [NoRecords EXCEPT ![<<"i">>] = GoodSubject]}
    /\ before = store
    /\ prev = NoExchange

\* the next request of the session arrives
StoreReceive ==
    /\ pc = "idle"
    /\ prev.n < MaxRequests
    /\ \E r \in SessionRequests :
        /\ req' = r
        /\ pc' = "auth"
    /\ before' = store
    /\ UNCHANGED <<reply, g_token, validated, calls, total, result, steps, resp,
                   config, client, store, prev>>

\* the gateway call of a route, answered by the remote table
StoreCall ==
    /\ pc = "call"
    /\ Gateway(RemoteAnswer(store, OutboundCall(req.route)))
    /\ store' = RemoteApply(store, OutboundCall(req.route))
    /\ UNCHANGED <<config, client, before, prev>>

\* the response is sent; the session remembers the exchange
StoreFinish ==
    /\ pc = "done"
    /\ pc' = "idle"
    /\ prev' = [req |-> req, resp |-> resp, before |-> before, n |-> prev.n + 1]
    /\ req' = NoRequest
    /\ reply' = NoReply
    /\ g_token' = JAbsent
    /\ validated' = NoData
    /\ calls' = <<>>
    /\ total' = JAbsent
    /\ result' = NoValue
    /\ steps' = <<>>
    /\ resp' = NoResponse
    /\ UNCHANGED <<config, client, store, before>>

StoreNext ==
    \/ StoreReceive
    \/ RequireAuth
    \/ ParseBody
    \/ ValidateRequest
    \/ StoreCall
    \/ ValidateResponse
    \/ FormatResponse
    \/ StoreFinish

StoreSpec == StoreInit /\ [][StoreNext]_vars


----------------------------------------------------------------------------
(* Constructing the gateway from a Config object, whatever its credentials *)
(* (BackendlessClient.__init__), and calling a method of the instance.     *)

\* BACKENDLESS_APP_ID / BACKENDLESS_REST_API_KEY: os.getenv gave None, an
\* empty string, or a value
ConfigValues == {JNull, JStr(<<>>), JStr(<<"k">>)}

Configs == [app_id : ConfigValues, api_key : ConfigValues]

\* mutant: only the application id is looked at
ConfigMissingAppIdOnly(c) == ~Truthy(c.app_id)

\* _validate_config: not APP_ID or not REST_API_KEY
ConfigMissing(c) == ~Truthy(c.app_id) \/ ~Truthy(c.api_key)

ClientInit ==
    /\ pc = "idle"
    /\ req = NoRequest
    /\ reply = NoReply
    /\ g_token = JAbsent
    /\ validated = NoData
    /\ calls = <<>>
    /\ total = JAbsent
    /\ result = NoValue
    /\ steps = <<>>
    /\ resp = NoResponse
    /\ config \in Configs
    /\ client = "none"
    /\ store = NoRecords
    /\ before = NoRecords
    /\ prev = NoExchange

\* BackendlessClient(config): __init__ raises ValueError out of
\* _validate_config, or returns the instance
Construct ==
    /\ client = "none"
    /\ client' = IF ConfigMissing(config) THEN "failed" ELSE "ready"
    /\ UNCHANGED <<pc, req, reply, g_token, validated, calls, total, result, steps, resp,
                   config, store, before, prev>>

\* a method of the instance is called and sends its HTTP request
Invoke ==
    /\ client = "ready"
    /\ calls = <<>>
    /\ \E method \in Methods, user_token \in Tokens :
        /\ calls' = <<[NoCall EXCEPT !.method = method,
                                     !.user_token = BuildHeaders(user_token)]>>
        /\ \E r \in Replies(method) :
            /\ reply' = r
            /\ result' = Transport(method, r).value
    /\ UNCHANGED <<pc, req, g_token, validated, total, steps, resp,
                   config, client, store, before, prev>>

ClientNext == Construct \/ Invoke

ClientSpec == ClientInit /\ [][ClientNext]_vars

----------------------------------------------------------------------------
(* Properties.                                                             *)

Done == pc = "done"

IsError(r, status) == r.envelope = "error" /\ r.status = status /\ r.code = status

\* what the last gateway call handed back to the route
LastOutcome == Transport(calls[Len(calls)].method, reply)

\* the request carries a JSON object that its route's schema rejects
SchemaViolation ==
    /\ req.route \in BodyRoutes
    /\ req.form = "object"
    /\ ~RequestSchema(req.route, req.body).ok

\* C1: a request to any of the five subject routes that carries no
\* user-token header is answered 401 (error envelope, code 401) and makes no
\* gateway call, whatever its body, query or path id.
C1_NoTokenNoGateway ==
    (req.route \in SubjectRoutes /\ req.token = JAbsent) =>
        /\ calls = <<>>
        /\ Done => IsError(resp, 401)

C1_Witness ==
    /\ Done
    /\ req.route = "create"
    /\ req.token = JAbsent
    /\ req.form = "object"
    /\ SubjectCreate(req.body).ok
    /\ IsError(resp, 401)
    /\ calls = <<>>

NegativeHours(b) == IsInt(b.weeklyLoadHours) /\ b.weeklyLoadHours.n < 0

\* the body has a kind key whose value is none of the five literals
KindOutside(b) == b.kind.t # "absent" /\ ~(IsStr(b.kind) /\ b.kind.s \in KindLiterals)

RejectedLocally == calls = <<>> /\ (Done => IsError(resp, 400))

\* C2 as stated: an authenticated POST /subjects or PUT /subjects/{id} whose
\* body has weeklyLoadHours < 0 or a kind outside the five literals is
\* answered 400 and makes no gateway call.
C2_Original ==
    (/\ req.route \in {"create", "update"}
     /\ Truthy(req.token)
     /\ req.form = "object"
     /\ NegativeHours(req.body) \/ KindOutside(req.body)) => RejectedLocally

\* C2, amended: the same, for a weeklyLoadHours < 0 or a kind that is not
\* null and is none of the five literals; on POST a null kind is rejected
\* too, on PUT a null kind is a field left unset and the update goes out.
C2_InvalidFieldsRejected ==
    (/\ req.route \in {"create", "update"}
     /\ Truthy(req.token)
     /\ req.form = "object"
     /\ \/ NegativeHours(req.body)
        \/ KindOutside(req.body) /\ (req.route = "create" \/ req.body.kind.t # "null"))
    => RejectedLocally

C2_Witness ==
    /\ Done
    /\ req.route = "update"
    /\ Truthy(req.token)
    /\ req.form = "object"
    /\ req.body.name = JStr(<<"a">>)
    /\ NegativeHours(req.body)
    /\ IsError(resp, 400)
    /\ calls = <<>>

\* the status C3 gives for a BackendlessClientError
ClaimedStatus(error) ==
    LET code == error.status_code
        says(needle) == IsStr(error.message) /\ Contains(Lower(error.message.s), needle)
    IN  IF (IsInt(code) /\ code.n = 404) \/ says(NotFoundNeedle) THEN 404
        ELSE IF (IsInt(code) /\ code.n = 401) \/ says(InvalidNeedle) THEN 401
        ELSE IF IsInt(code) /\ code.n = 403 THEN 403
        ELSE IF IsInt(code) THEN code.n
        ELSE 500

\* C3: the status of the response to a BackendlessClientError raised by a
\* gateway call is 404 if status_code is 404 or the message contains "not
\* found"; else 401 if status_code is 401 or the message contains "invalid";
\* else 403 if status_code is 403; else the error's own status_code, 500
\* when it is unset.
C3_Original ==
    (Done /\ calls # <<>> /\ reply.kind # "none" /\ LastOutcome.k = "raise") =>
        resp.status = ClaimedStatus(LastOutcome.error)

\* the remote says the identifier does not exist: HTTP 404, or an error body
\* whose message says "not found"
SignalsNotFound(r) ==
    /\ r.kind = "http"
    /\ r.status >= 400
    /\ \/ r.status = 404
       \/ r.form = "object" /\ IsStr(r.message) /\ Contains(Lower(r.message.s), NotFoundNeedle)

\* C4: GET, PUT and DELETE /subjects/{id} with a token and a valid body: when
\* the remote signals that the identifier does not exist, the caller gets
\* 404 with code 404.
C4_Original ==
    (/\ Done
     /\ req.route \in {"get", "update", "delete"}
     /\ Len(calls) = 1
     /\ SignalsNotFound(reply)) => IsError(resp, 404)

\* the payload a successful gateway call returned does not match the
\* response schema of the route
ShapeMismatch ==
    /\ calls # <<>>
    /\ reply.kind = "http"
    /\ reply.status < 400
    /\ CASE req.route = "delete" -> FALSE
         [] req.route = "list" ->
                /\ Len(calls) = 2
                /\ \/ reply.form # "list"
                   \/ \E i \in 1..Len(reply.items) : ~Subject(reply.items[i]).ok
         [] OTHER ->
                \/ reply.form \notin {"object", "empty", "text"}
                \/ ~ResponseSchema(req.route, ResponseData(reply).fields).ok

\* C5: when a gateway call succeeds and its payload does not match the
\* response schema, the request ends with status 500, not with a 4xx.
C5_Original == (Done /\ ShapeMismatch) => resp.status = 500

\* q is a prefix of p
IsPrefix(q, p) == Len(q) <= Len(p) /\ SubSeq(p, 1, Len(q)) = q

\* q is p up to and including its first occurrence of step
EndsAt(q, step) == q # <<>> /\ q[Len(q)] = step

\* C6 as stated: the steps run in the order parse, validate, token check,
\* gateway, shape, format, and a schema violation on POST /subjects or
\* PUT /subjects/{id} is answered 400 before the token check is reached.
ClaimedRank(step) ==
    CASE step = "parse" -> 1
      [] step = "validate" -> 2
      [] step = "auth" -> 3
      [] step = "gateway" -> 4
      [] step = "shape" -> 5
      [] step = "format" -> 6

C6_Original ==
    /\ \A i, j \in 1..Len(steps) : i < j => ClaimedRank(steps[i]) <= ClaimedRank(steps[j])
    /\ (Done /\ req.route \in {"create", "update"} /\ SchemaViolation) =>
            (IsError(resp, 400) /\ EndsAt(steps, "validate"))

\* the steps of each route, in the order the code runs them
Pipeline(route) ==
    CASE route = "login" -> <<"parse", "validate", "gateway", "shape", "format">>
      [] route \in {"create", "update"} ->
            <<"auth", "parse", "validate", "gateway", "shape", "format">>
      [] route = "get" -> <<"auth", "gateway", "shape", "format">>
      [] route = "delete" -> <<"auth", "gateway", "format">>
      [] route = "list" -> <<"auth", "gateway", "gateway", "shape", "format">>
      [] OTHER -> <<>>

\* C6, amended: on the subject routes the token check runs first, then
\* parse, schema validation, gateway call(s), response-shape validation and
\* format, each route running those of the steps it has (login has no token
\* check); the first step that fails produces the terminal response and no
\* later step runs, and a response that is no error has run every step.  A
\* schema violation on POST /subjects or PUT /subjects/{id} is answered 400 at
\* the validation step when the token is present, and 401 at the token check,
\* which is the only step run, when it is not.
C6_TokenCheckFirst ==
    /\ IsPrefix(steps, Pipeline(req.route))
    /\ (Done /\ resp.envelope = "error") => ~EndsAt(steps, "format")
    /\ (Done /\ resp.envelope # "error") => steps = Pipeline(req.route)
    /\ (Done /\ req.route \in {"create", "update"} /\ SchemaViolation) =>
            IF Truthy(req.token)
            THEN IsError(resp, 400) /\ steps = <<"auth", "parse", "validate">>
            ELSE IsError(resp, 401) /\ steps = <<"auth">>

C6_Witness ==
    /\ Done
    /\ req.route = "create"
    /\ SchemaViolation
    /\ ~Truthy(req.token)
    /\ IsError(resp, 401)
    /\ steps = <<"auth">>

\* the body parses as JSON and does not satisfy the schema of its route
ParsesButInvalid ==
    \/ req.form \in {"null", "array", "string", "number"}
    \/ SchemaViolation

\* C7: on POST /auth/login, POST /subjects and PUT /subjects/{id} (token
\* present on the subject routes) a body that parses as JSON and does not
\* satisfy the schema, a JSON value that is no object included, is answered
\* 400 and makes no gateway call.
C7_Original ==
    (/\ req.route \in BodyRoutes
     /\ req.route = "login" \/ Truthy(req.token)
     /\ ParsesButInvalid) => RejectedLocally

\* C8 as stated: on a body-requiring route, a JSON content type with a body
\* that is not parseable JSON is answered 400 at the parse step, with no
\* gateway call.
C8_Original ==
    (req.route \in BodyRoutes /\ req.form = "malformed") =>
        /\ calls = <<>>
        /\ Done => IsError(resp, 400) /\ EndsAt(steps, "parse")

\* C8, amended: the same, for POST /auth/login and for POST /subjects and
\* PUT /subjects/{id} sent with a user-token; without the token the two
\* subject routes answer 401 before the body is read.
C8_MalformedJsonRejected ==
    (/\ req.route \in BodyRoutes
     /\ req.form = "malformed"
     /\ req.route = "login" \/ Truthy(req.token)) =>
        /\ calls = <<>>
        /\ Done => IsError(resp, 400) /\ EndsAt(steps, "parse")

C8_Witness ==
    /\ Done
    /\ req.route = "update"
    /\ Truthy(req.token)
    /\ req.form = "malformed"
    /\ IsError(resp, 400)
    /\ steps = <<"auth", "parse">>
    /\ calls = <<>>

\* the list call of a GET /subjects request, once it was made
ListCallMade == Len(calls) = 2 /\ calls[2].method = "list"

\* C9: for every page_size and offset given to BackendlessClient.list, the
\* pageSize sent to the remote is page_size brought into 1..100 and the
\* offset sent is offset raised to 0 when negative; out-of-range values
\* raise no error: the call is made and its answer decides the response.
C9_ListClamps ==
    LET ps == PageSizeArg(req)
        off == OffsetArg(req)
    IN  /\ pc \in {"shape", "format"} /\ req.route = "list" => ListCallMade
        /\ ListCallMade =>
            /\ calls[2].pageSize = JInt(IF ps < 1 THEN 1 ELSE IF ps > 100 THEN 100 ELSE ps)
            /\ calls[2].offset = JInt(IF off < 0 THEN 0 ELSE off)
            /\ (Done /\ reply.form = "list" /\ reply.status = 200
                     /\ \A i \in 1..Len(reply.items) : reply.items[i] = GoodSubject)
                    => resp.status = 200

C9_Witness ==
    /\ Done
    /\ req.pageSize = JInt(500)
    /\ req.offset = JInt(-5)
    /\ ListCallMade
    /\ calls[2].pageSize = JInt(100)
    /\ calls[2].offset = JInt(0)
    /\ resp.status = 200

\* t is s without its leading and trailing spaces
IsTrimOf(t, s) ==
    /\ t = <<>> \/ (t[1] # " " /\ t[Len(t)] # " ")
    /\ \E i \in 0..Len(s) :
        /\ i + Len(t) <= Len(s)
        /\ SubSeq(s, i + 1, i + Len(t)) = t
        /\ \A k \in (1..i) \cup ((i + Len(t) + 1)..Len(s)) : s[k] = " "

\* the other fields of a create body are valid
RestOfCreateValid(b) ==
    /\ b.kind.t = "absent" \/ (IsStr(b.kind) /\ b.kind.s \in KindLiterals)
    /\ b.weeklyLoadHours.t = "absent" \/ (IsInt(b.weeklyLoadHours) /\ b.weeklyLoadHours.n >= 0)

\* the create call went out with the trimmed name and code
ForwardedTrimmed ==
    /\ pc \in {"shape", "format", "done"} => Len(calls) = 1
    /\ calls # <<>> =>
        /\ calls[1].method = "create"
        /\ IsStr(calls[1].data.name) /\ IsTrimOf(calls[1].data.name.s, req.body.name.s)
        /\ IsStr(calls[1].data.code) /\ IsTrimOf(calls[1].data.code.s, req.body.code.s)

\* C10 as stated: every POST /subjects body whose name and code are
\* non-empty strings (other fields valid, token present) passes validation,
\* and create receives name and code with surrounding whitespace stripped.
C10_Original ==
    (/\ req.route = "create"
     /\ Truthy(req.token)
     /\ req.form = "object"
     /\ IsStr(req.body.name) /\ req.body.name.s # <<>>
     /\ IsStr(req.body.code) /\ req.body.code.s # <<>>
     /\ RestOfCreateValid(req.body)) => ForwardedTrimmed

HasNonSpace(str) == \E i \in 1..Len(str) : str[i] # " "

\* C10, amended: every POST /subjects body whose name and code are strings
\* with at least one character that is not whitespace (other fields valid,
\* token present) passes validation, and create receives name and code with
\* surrounding whitespace stripped and no other alteration; a name or code of
\* whitespace only is rejected with 400.
C10_TrimmedForwarded ==
    (/\ req.route = "create"
     /\ Truthy(req.token)
     /\ req.form = "object"
     /\ IsStr(req.body.name)
     /\ IsStr(req.body.code)
     /\ RestOfCreateValid(req.body)) =>
        IF HasNonSpace(req.body.name.s) /\ HasNonSpace(req.body.code.s)
        THEN ForwardedTrimmed
        ELSE RejectedLocally

C10_Witness ==
    /\ pc = "shape"
    /\ req.route = "create"
    /\ req.body.name = JStr(<<" ", "a">>)
    /\ req.body.code = JStr(<<"a", " ">>)
    /\ calls[1].data.name = JStr(<<"a">>)
    /\ calls[1].data.code = JStr(<<"a">>)

\* the subject fields of a request body
SubjectFields == {"name", "code", "kind", "weeklyLoadHours"}

\* what update must receive for field f of body b: nothing for a field that
\* is absent or null, the trimmed string for name and code, the value itself
\* for kind and weeklyLoadHours
ExpectedUpdateField(b, f) ==
    IF b[f].t \in {"absent", "null"} THEN JAbsent
    ELSE IF f \in {"name", "code"} THEN JStr(Strip(b[f].s))
    ELSE b[f]

\* C11: for every valid PUT /subjects/{id} body, the data passed to
\* BackendlessClient.update holds exactly the schema fields the client gave
\* with a non-null value (name and code trimmed) and no others, absent
\* fields are not defaulted, and object_id is the path id.
C11_UpdateSendsGivenFields ==
    (/\ req.route = "update"
     /\ Truthy(req.token)
     /\ req.form = "object"
     /\ SubjectUpdate(req.body).ok) =>
        /\ pc \in {"shape", "format", "done"} =>
            /\ Len(calls) = 1
            /\ calls[1].method = "update"
            /\ calls[1].object_id = req.id
            /\ \A f \in SubjectFields : calls[1].data[f] = ExpectedUpdateField(req.body, f)
            /\ calls[1].data.login = JAbsent /\ calls[1].data.password = JAbsent
        /\ pc \in {"auth", "parse", "validate", "call"} => calls = <<>>

C11_Witness ==
    /\ pc = "shape"
    /\ req.route = "update"
    /\ req.id = <<"i">>
    /\ req.body.name = JStr(<<" ", "a">>)
    /\ req.body.code = JAbsent
    /\ req.body.kind = JNull
    /\ req.body.weeklyLoadHours = JAbsent
    /\ calls[1].object_id = <<"i">>
    /\ calls[1].data = [NoData EXCEPT !.name = JStr(<<"a">>)]

C15_TransportFailureIs500 ==
    (calls # <<>> /\ reply.kind \in {"timeout", "connection", "request_exception"}) =>
        LET method == calls[Len(calls)].method
            message == IF reply.kind = "request_exception"
                       THEN OperationMessage(method) ELSE ConnectFailedMessage
        IN  /\ method \in Methods
            /\ LastOutcome.k = "raise"
            /\ LastOutcome.error.message = JStr(message)
            /\ LastOutcome.error.status_code = JNull
            /\ reply.kind = "request_exception" => message # ConnectFailedMessage
            /\ Done
            /\ IsError(resp, 500)
            /\ resp.message = TChars(message)

C15_Witness ==
    /\ Done
    /\ req.route = "list"
    /\ Len(calls) = 2
    /\ reply.kind = "request_exception"
    /\ IsError(resp, 500)
    /\ resp.message = TChars(ListErrorMessage)

\* the messages the gateway itself gives to a BackendlessClientError
GatewayMessages ==
    {ConnectFailedMessage, UnknownErrorMessage} \cup {OperationMessage(m) : m \in Methods}

\* a text of a response body that is a literal of the code, or no text
Generic(text) ==
    \/ text.k \in {"fixed", "none"}
    \/ text.k = "chars" /\ text.chars \in GatewayMessages

\* C16: in every response with status >= 500 the message and the details
\* are fixed generic strings that depend neither on the remote error's
\* message, nor on the remote response body, nor on the text of the
\* transport exception.
C16_Original ==
    (Done /\ resp.status >= 500) => (Generic(resp.message) /\ Generic(resp.details))

\* the remote answered the last gateway call with an HTTP error status
RemoteErrorResponse == calls # <<>> /\ reply.kind = "http" /\ reply.status >= 400

\* C17: for every gateway operation and every remote HTTP response with
\* status >= 400, whatever its body (JSON object, list or number, text that
\* is no JSON, or empty), the operation raises BackendlessClientError; it
\* neither returns the body as data nor lets another exception escape.
C17_Original == RemoteErrorResponse => LastOutcome.k = "raise"

\* the body of the remote's answer is a JSON object with a code key
CarriesCode(r) == r.form = "object" /\ r.code.t # "absent"

\* C18: when the remote answers with HTTP status >= 400 the raised
\* BackendlessClientError has status_code equal to the code field of the
\* body if the body carries one, else the HTTP status; so status_code is
\* set for every remote error response and unset exactly for transport
\* failures.
C18_Original ==
    /\ (RemoteErrorResponse /\ reply.form \notin {"list", "number"}) =>
        /\ LastOutcome.k = "raise"
        /\ LastOutcome.error.status_code =
                (IF CarriesCode(reply) THEN reply.code ELSE JInt(reply.status))
        /\ IsInt(LastOutcome.error.status_code)
    /\ (calls # <<>> /\ reply.kind \in {"timeout", "connection", "request_exception"}) =>
        LastOutcome.k = "raise" /\ LastOutcome.error.status_code = JNull

\* the methods of the gateway calls made so far, in order
MethodsCalled == [i \in 1..Len(calls) |-> calls[i].method]

\* C19: per inbound request login, create, get, update and delete make at
\* most one gateway call; GET /subjects makes count first and then list, at
\* most once each, and does not call list when count fails; no call is
\* retried after a failure: the failure ends the request with one error
\* response.
C19_CallsBoundedNoRetry ==
    /\ req.route \in {"login", "create", "get", "update", "delete"} =>
            MethodsCalled \in {<<>>, <<MethodOf(req.route)>>}
    /\ req.route = "list" => MethodsCalled \in {<<>>, <<"count">>, <<"count", "list">>}
    /\ req.route = "" => calls = <<>>
    /\ (req.route = "list" /\ Len(calls) = 2) => total # JAbsent
    /\ (calls # <<>> /\ LastOutcome.k # "return") =>
            /\ Done
            /\ resp.envelope = "error"
            /\ req.route = "list" /\ Len(calls) = 1 => total = JAbsent

C19_Witness ==
    /\ Done
    /\ req.route = "list"
    /\ MethodsCalled = <<"count">>
    /\ reply.kind = "http" /\ reply.status = 500
    /\ resp.envelope = "error"

\* the body names exactly one subject field
OneField(b) == Cardinality({f \in SubjectFields : b[f].t # "absent"}) = 1

\* the request just answered is a GET of the id that the request before it
\* updated with a valid one-field body, the subject existing before
GetAfterUpdate ==
    /\ Done
    /\ req.route = "get"
    /\ prev.req.route = "update"
    /\ prev.req.id = req.id
    /\ OneField(prev.req.body)
    /\ SubjectUpdate(prev.req.body).ok
    /\ prev.before[req.id] # NoPayload

\* C12: against a remote store that applies PUT bodies as partial updates,
\* after an update of an existing subject with a one-field body a following
\* get of the same id returns that field with the value sent (name and code
\* trimmed; a null leaves the field as it was) and every other field of
\* name, code, kind and weeklyLoadHours equal to its value before the
\* update.
C12_UntouchedFieldsKept ==
    GetAfterUpdate =>
        /\ prev.resp.status = 200
        /\ resp.status = 200
        /\ resp.data[1].objectId = JStr(req.id)
        /\ \A f \in SubjectFields :
            resp.data[1][f] =
                IF ExpectedUpdateField(prev.req.body, f) # JAbsent
                THEN ExpectedUpdateField(prev.req.body, f)
                ELSE prev.before[req.id][f]

C12_Witness ==
    /\ GetAfterUpdate
    /\ prev.req.body.weeklyLoadHours = JInt(2)
    /\ prev.before[req.id].weeklyLoadHours = JInt(0)
    /\ prev.before[req.id].kind = JStr(KExam)
    /\ resp.data[1].weeklyLoadHours = JInt(2)
    /\ resp.data[1].kind = JStr(KExam)
    /\ resp.data[1].name = JStr(<<"a">>)

\* the request just answered is a GET of the objectId that the POST
\* /subjects before it returned
GetAfterCreate ==
    /\ Done
    /\ req.route = "get"
    /\ prev.req.route = "create"
    /\ prev.resp.status = 201
    /\ prev.resp.data[1].objectId = JStr(req.id)

CredentialMissing ==
    \/ config.app_id \in {JNull, JStr(<<>>)}
    \/ config.api_key \in {JNull, JStr(<<>>)}

\* C20: constructing BackendlessClient with a configuration whose
\* application id or REST API key is missing or empty fails with a
\* configuration error before any network call: no instance able to issue
\* requests exists, and no HTTP request is sent.
C20_NoClientWithoutCredentials ==
    /\ CredentialMissing => (client \in {"none", "failed"} /\ calls = <<>>)
    /\ calls # <<>> => client = "ready"
    /\ client = "ready" => ~CredentialMissing

C20_Witness ==
    /\ client = "failed"
    /\ config.app_id = JStr(<<"k">>)
    /\ config.api_key = JStr(<<>>)
    /\ calls = <<>>

\* a text is there and is not empty
Present(text) == text.k # "none" /\ (text.k = "chars" => text.chars # <<>>)

\* C21: every non-2xx response (validation error, missing token, mapped
\* remote error, HTTP exceptions such as 404 / 405 / 415, catch-all) has a
\* body with message and code, code being the HTTP status of the response,
\* and has details only when a non-empty details value was given.
C21_ErrorEnvelope ==
    (Done /\ ~(resp.status >= 200 /\ resp.status < 300)) =>
        /\ resp.envelope = "error"
        /\ Present(resp.message)
        /\ resp.code = resp.status
        /\ resp.details.k # "none" => Present(resp.details)
        /\ resp.data = <<>>

C21_Witness ==
    /\ Done
    /\ calls # <<>>
    /\ reply.kind = "http" /\ reply.status = 404 /\ reply.message = JStr(<<>>)
    /\ resp.status = 404
    /\ resp.details = TNone

\* the fields of a record that are there
FieldsOf(record) == {f \in DOMAIN record : record[f].t # "absent"}

\* C22: for every successful login the 200 response body has exactly the
\* three fields user-token, objectId and email, with the values the gateway
\* returned, and no other field, also when the remote reply carries more.
C22_LoginThreeFields ==
    (Done /\ req.route = "login" /\ resp.status = 200) =>
        /\ resp.envelope = "success"
        /\ FieldsOf(resp.data[1]) = {"token", "objectId", "email"}
        /\ resp.data[1].token = reply.fields.token
        /\ resp.data[1].objectId = reply.fields.objectId
        /\ resp.data[1].email = reply.fields.email

C22_Witness ==
    /\ Done
    /\ req.route = "login"
    /\ resp.status = 200
    /\ reply.fields.name = JStr(<<"a">>)
    /\ resp.data[1].name = JAbsent
    /\ resp.data[1].token = JStr(<<"t">>)

SubjectState(record) == [record EXCEPT !.updated = JAbsent]

\* C24: PUT /subjects/{id} with an empty JSON object body and a token
\* passes validation (no 400) and is a no-op: the update call carries no
\* field, and no field of a stored subject is changed by it (the remote's
\* own updated stamp aside).
C24_EmptyUpdateNoOp ==
    (Done /\ req.route = "update" /\ Truthy(req.token) /\ req.form = "object"
          /\ FieldsOf(req.body) = {}) =>
        /\ resp.status # 400
        /\ Len(calls) = 1
        /\ calls[1].method = "update"
        /\ calls[1].data = NoData
        /\ \A i \in Ids : SubjectState(store[i]) = SubjectState(before[i])
        /\ before[req.id] # NoPayload =>
            /\ resp.status = 200
            /\ SubjectState(resp.data[1]) = SubjectState(before[req.id])

C24_Witness ==
    /\ Done
    /\ req.route = "update"
    /\ req.body = NoBody
    /\ before[req.id] = GoodSubject
    /\ resp.status = 200
    /\ resp.data[1].name = JStr(<<"a">>)
    /\ store[req.id].kind = JStr(KExam)

\* C25: whatever JSON object POST /subjects receives, with objectId, created,
\* updated or unknown keys in it or not, the data handed to create has the keys
\* name, code, kind and weeklyLoadHours and no other: never objectId.
C25_CreateDataFourFields ==
    (req.route = "create" /\ Len(calls) >= 1) =>
        /\ calls[1].method = "create"
        /\ calls[1].data.objectId = JAbsent
        /\ FieldsOf(calls[1].data) = SubjectFields

C25_Witness ==
    /\ Done
    /\ req.route = "create"
    /\ req.body.objectId = JStr(<<"j">>)
    /\ req.body.extra = JOther
    /\ Len(calls) = 1
    /\ calls[1].data.objectId = JAbsent
    /\ resp.status = 201

\* the text code='v' for the characters v
CodeEquals(v) == <<"c", "o", "d", "e", "=", "'">> \o v \o <<"'">>

\* C26: on GET /subjects with a non-empty code parameter v, the count request
\* and the list request both go out with the query parameter where set to
\* code='v', v taken verbatim; with no code parameter or an empty one neither
\* request has a where parameter.
C26_SameWhereForCountAndList ==
    \A i \in 1..Len(calls) :
        (req.route = "list" /\ calls[i].method \in {"count", "list"}) =>
            calls[i].where =
                IF req.code.t = "str" /\ req.code.s # <<>>
                THEN [t |-> "str", s |-> CodeEquals(req.code.s), n |-> 0]
                ELSE [t |-> "absent", s |-> <<>>, n |-> 0]

C26_Witness ==
    /\ Done
    /\ req.route = "list"
    /\ req.code.s = <<"'">>
    /\ Len(calls) = 2
    /\ calls[1].method = "count"
    /\ calls[2].method = "list"
    /\ calls[1].where.s = <<"c", "o", "d", "e", "=", "'", "'", "'">>
    /\ calls[2].where = calls[1].where
    /\ resp.status = 200

\* C27: every outbound request of a subject route, the count and the list of
\* GET /subjects included, carries as user-token header the user-token header
\* of the inbound request, unchanged; the outbound login request carries no
\* user-token header, also when the inbound login request has one.
C27_TokenForwarded ==
    \A i \in 1..Len(calls) :
        IF req.route = "login"
        THEN calls[i].user_token.t = "absent"
        ELSE /\ req.token.t = "str"
             /\ req.token.s # <<>>
             /\ calls[i].user_token = req.token

C27_Witness ==
    /\ Done
    /\ req.route = "list"
    /\ req.token.s = <<"t">>
    /\ Len(calls) = 2
    /\ calls[1].user_token.s = <<"t">>
    /\ calls[2].user_token.s = <<"t">>

\* a login with a user-token header has reached the remote
C27_LoginWithToken ==
    /\ Done
    /\ req.route = "login"
    /\ req.token.s = <<"t">>
    /\ Len(calls) = 1
    /\ calls[1].user_token.t = "absent"

\* GET /subjects answered 200: count and list were both called
ListAnswered ==
    /\ Done
    /\ req.route = "list"
    /\ resp.status = 200
    /\ Len(calls) = 2

\* C28: for every successful GET /subjects the paginated envelope agrees with
\* the remote call behind it: offset is the offset sent to the remote (the
\* clamped value, so >= 0), count is the length of results, and total is the
\* value count returned.
C28_Original ==
    ListAnswered =>
        /\ resp.offset = calls[2].offset.n
        /\ resp.offset >= 0
        /\ resp.count = Len(resp.data)
        /\ resp.total = total

\* the part of C28 the code keeps: count and total
C28_CountAndTotal ==
    ListAnswered =>
        /\ resp.count = Len(resp.data)
        /\ resp.total = total

\* the envelope echoes the offset of the query string, the clamped one went out
C28_EchoesRawOffset ==
    /\ ListAnswered
    /\ req.offset.n = -5
    /\ calls[2].offset.n = 0
    /\ resp.offset = -5

\* a gateway call raised BackendlessClientError and the response is sent
GatewayErrorAnswered ==
    /\ Done
    /\ calls # <<>>
    /\ LastOutcome.k = "raise"

\* C29: whatever status_code a BackendlessClientError carries (a remote
\* application code such as 1000, 0, a value below 400), the response the
\* handler gives has an HTTP status in 400..599: never a 2xx, never a number
\* that is no HTTP status.
C29_Original == GatewayErrorAnswered => resp.status \in 400..599

\* the remote's application code 1000 has become the HTTP status
C29_RemoteCodeAsStatus ==
    /\ GatewayErrorAnswered
    /\ reply.status = 500
    /\ reply.code.n = 1000
    /\ resp.status = 1000

\* a record that has all a Subject must have: objectId, name and code, a kind
\* among the five literals, weeklyLoadHours >= 0
WellFormed(p) ==
    /\ p.objectId.t = "str"
    /\ p.name.t = "str"
    /\ p.code.t = "str"
    /\ p.kind.t = "str"
    /\ p.kind.s \in {KClass, KExam, KTask, KProject, KOther}
    /\ p.weeklyLoadHours.t = "int"
    /\ p.weeklyLoadHours.n >= 0

\* a record the Subject schema can complete: as WellFormed, but kind and
\* weeklyLoadHours may be absent (they take the defaults), and created and
\* updated are integers when given
Completable(p) ==
    /\ p.objectId.t = "str"
    /\ p.name.t = "str"
    /\ p.code.t = "str"
    /\ p.kind.t = "absent" \/ (p.kind.t = "str" /\ p.kind.s \in {KClass, KExam, KTask, KProject, KOther})
    /\ p.weeklyLoadHours.t = "absent" \/ (p.weeklyLoadHours.t = "int" /\ p.weeklyLoadHours.n >= 0)
    /\ p.created.t \in {"absent", "null", "int"}
    /\ p.updated.t \in {"absent", "null", "int"}

ReturnsSubjects == req.route \in {"create", "get", "update", "list"}

\* the records of the remote's 2xx answer to the call that fetches subjects
RemoteRecords ==
    IF calls = <<>> \/ reply.kind # "http" \/ reply.status >= 400 THEN {}
    ELSE IF req.route = "list"
    THEN IF Len(calls) = 2 /\ reply.form = "list"
         THEN {reply.items[i] : i \in 1..Len(reply.items)}
         ELSE {}
    ELSE IF reply.form = "object" THEN {reply.fields} ELSE {}

Answered2xx == Done /\ ReturnsSubjects /\ resp.status \in 200..299

\* every Subject of a 2xx body is well formed
C30_ReturnedWellFormed ==
    Answered2xx => \A i \in 1..Len(resp.data) : WellFormed(resp.data[i])

C30_DefaultedKind ==
    /\ Done
    /\ req.route = "get"
    /\ reply.status = 200
    /\ reply.fields.kind.t = "absent"
    /\ resp.status = 200
    /\ resp.data[1].kind.s = KClass

====
